---- MODULE Spec2Model ----
(***************************************************************************)
(* A model of the eser binary codec: the size calculator                   *)
(* (tools::serialized_size_of), the encoder (binary::serializer::to and    *)
(* its serialize_impl overload set, in the eser version and in the older   *)
(* ser version) and the decoder (binary::deserializer).                    *)
(*                                                                         *)
(* Memory is a sequence of bytes; pointers are 0-based offsets into it.    *)
(* A C++ type is a record [elem, n]: n = std::extent_v<T> (0 for a type    *)
(* that is no array) and elem names the type, or the element type of the   *)
(* array.  The host is little-endian (tools/endianness.hpp).               *)
(***************************************************************************)
EXTENDS Integers, Sequences, FiniteSets, TLC

(***************************************************************************)
(* Bounds of the model.                                                    *)
(***************************************************************************)
MaxArity == 2       \* longest type list T... of serialize / to<T...>
MaxOverread == 1    \* bytes strlen can run past an unterminated char array
MaxSlack == 2       \* capacities / lengths tried beyond the bytes needed

(***************************************************************************)
(* std::size_t: an unsigned integer type, modelled at the smallest width   *)
(* the language allows it (16 bits); arithmetic on it wraps.               *)
(***************************************************************************)
SizeBits == 16

RECURSIVE Pow2(_)
Pow2(k) == IF k = 0 THEN 1 ELSE 2 * Pow2(k - 1)

SizeMod == Pow2(SizeBits)

SizeSub(a, b) == (a - b + SizeMod) % SizeMod

(***************************************************************************)
(* The type universe.                                                      *)
(***************************************************************************)
ArithNames == {"uint8", "char", "int8", "int16", "uint16", "int32", "float"}
EnumNames == {"E16"}            \* enum class E16 : std::int16_t
ClassNames == {"S"}             \* struct S { std::uint8_t a; std::uint16_t b; }
PointerNames == {"ptr16", "cstr"}   \* pointers of a 16-bit target: an object
                                    \* pointer that is no const char*, and
                                    \* const char* ("cstr")

Scalar(name) == [elem |-> name, n |-> 0]
Array(name, N) == [elem |-> name, n |-> N]

is_array_v(T) == T.n > 0
is_arithmetic_v(T) == T.n = 0 /\ T.elem \in ArithNames
is_enum_v(T) == T.n = 0 /\ T.elem \in EnumNames
is_class_v(T) == T.n = 0 /\ T.elem \in ClassNames
is_pointer_v(T) == T.n = 0 /\ T.elem \in PointerNames
is_trivially_copyable_v(T) == TRUE
is_scalar_v(T) == is_arithmetic_v(T) \/ is_enum_v(T) \/ is_pointer_v(T)
extent_v(T) == T.n
underlying_type_t(T) == IF T.elem = "E16" THEN Scalar("int16") ELSE T

SizeofName(name) ==
    CASE name \in {"uint8", "char", "int8"} -> 1
      [] name \in {"int16", "uint16", "E16", "ptr16", "cstr"} -> 2
      [] name \in {"int32", "float", "S"} -> 4

sizeof(T) == IF is_array_v(T) THEN T.n * SizeofName(T.elem) ELSE SizeofName(T.elem)

(***************************************************************************)
(* tools::serialized_size_of<T>().  A type that reaches a static_assert    *)
(* branch does not compile: Unsupported.                                   *)
(***************************************************************************)
Unsupported == -1

\* serialized_size_of with the array branch taking the size of one element.
serialized_size_of_element(T) ==
    IF is_arithmetic_v(T) THEN sizeof(T)
    ELSE IF is_enum_v(T) THEN sizeof(underlying_type_t(T))
    ELSE IF is_array_v(T) THEN SizeofName(T.elem)
    ELSE IF is_class_v(T) /\ is_trivially_copyable_v(T) THEN sizeof(T)
    ELSE Unsupported

serialized_size_of(T) ==
    IF is_arithmetic_v(T) THEN sizeof(T)
    ELSE IF is_enum_v(T) THEN sizeof(underlying_type_t(T))
    ELSE IF is_array_v(T) THEN sizeof(T)
    ELSE IF is_class_v(T) /\ is_trivially_copyable_v(T) THEN sizeof(T)
    ELSE Unsupported

\* The if constexpr branch of serialized_size_of<T>() a type takes; "cstr" and
\* "none" are the two branches that hold a static_assert.
serialized_size_of_branch(T) ==
    IF is_arithmetic_v(T) THEN "scalar"
    ELSE IF is_enum_v(T) THEN "enum"
    ELSE IF is_array_v(T) THEN "array"
    ELSE IF is_class_v(T) /\ is_trivially_copyable_v(T) THEN "struct"
    ELSE IF T.n = 0 /\ T.elem = "cstr" THEN "cstr"
    ELSE "none"

(***************************************************************************)
(* tools::serialized_size_of<T...>(), sizeof...(T) > 1: the left fold      *)
(* (... + serialized_size_of<T>()).  With one type the call resolves to    *)
(* the single-type function.                                               *)
(***************************************************************************)
RECURSIVE FoldSize(_, _)
FoldSize(Ts, k) ==
    IF k = 1 THEN serialized_size_of(Ts[1])
    ELSE FoldSize(Ts, k - 1) + serialized_size_of(Ts[k])

serialized_size_of_pack(Ts) ==
    IF Len(Ts) = 1 THEN serialized_size_of(Ts[1]) ELSE FoldSize(Ts, Len(Ts))

(***************************************************************************)
(* Values and their object representation on the little-endian host.       *)
(*   integer types   an integer of the type's range                        *)
(*   "float"         [s, e, f]: sign, biased exponent and fraction of an   *)
(*                   IEEE-754 binary32; it denotes                         *)
(*                   (-1)^s * (1 + f / 2^23) * 2^(e - 127)                 *)
(*   "E16"           [enum, v]: the enumeration and its underlying value   *)
(*   "S"             [a, pad, b]: the members and the padding byte that    *)
(*                   follows a                                             *)
(*   "ptr16"         [addr]: the address held                              *)
(*   "cstr"          the bytes found in memory from the address held on,   *)
(*                   up to and including the first zero byte               *)
(*   T[N]            a sequence of N element values                        *)
(***************************************************************************)
RECURSIVE Pow256(_)
Pow256(k) == IF k = 0 THEN 1 ELSE 256 * Pow256(k - 1)

IsSigned(name) == name \in {"int8", "int16", "int32"}

\* The w bytes of the two's-complement integer v, least significant first.
IntBytes(v, w) == [i \in 1..w |-> (v \div Pow256(i - 1)) % 256]

\* The integer the bytes bs hold, least significant first.
RECURSIVE UnsignedOf(_)
UnsignedOf(bs) ==
    IF Len(bs) = 0 THEN 0 ELSE bs[1] + 256 * UnsignedOf(Tail(bs))

SignedOf(bs) ==
    LET w == Len(bs)
        top == IF bs[w] >= 128 THEN bs[w] - 256 ELSE bs[w]
    IN  UnsignedOf(SubSeq(bs, 1, w - 1)) + top * Pow256(w - 1)

FloatBytes(v) ==
    << v.f % 256,
       (v.f \div 256) % 256,
       ((v.f \div 65536) % 128) + 128 * (v.e % 2),
       (v.e \div 2) + 128 * v.s >>

FloatOf(bs) ==
    [s |-> bs[4] \div 128,
     e |-> 2 * (bs[4] % 128) + (bs[3] \div 128),
     f |-> bs[1] + 256 * bs[2] + 65536 * (bs[3] % 128)]

\* static_cast<std::underlying_type_t<Enum>>(enum_member)
static_cast_underlying(v) == v.v

\* The sizeof(T) bytes memcpy reads from an object of the non-array type name.
ObjRep(name, v) ==
    CASE name = "float" -> FloatBytes(v)
      [] name = "E16" -> IntBytes(v.v, 2)
      [] name = "S" -> <<v.a, v.pad>> \o IntBytes(v.b, 2)
      [] name = "ptr16" -> IntBytes(v.addr, 2)
      [] OTHER -> IntBytes(v, SizeofName(name))

\* The value an object of the non-array type name holds once memcpy has
\* stored the bytes bs in it.
FromRep(name, bs) ==
    CASE name = "float" -> FloatOf(bs)
      [] name = "E16" -> [enum |-> "E16", v |-> SignedOf(bs)]
      [] name = "S" -> [a |-> bs[1], pad |-> bs[2], b |-> UnsignedOf(SubSeq(bs, 3, 4))]
      [] name = "ptr16" -> [addr |-> UnsignedOf(bs)]
      [] IsSigned(name) -> SignedOf(bs)
      [] OTHER -> UnsignedOf(bs)

\* T{}: the value-initialised object.
ZeroName(name) ==
    CASE name = "float" -> [s |-> 0, e |-> 0, f |-> 0]
      [] name = "E16" -> [enum |-> "E16", v |-> 0]
      [] name = "S" -> [a |-> 0, pad |-> 0, b |-> 0]
      [] name = "ptr16" -> [addr |-> 0]
      [] OTHER -> 0

Zero(T) ==
    IF is_array_v(T) THEN [i \in 1..T.n |-> ZeroName(T.elem)] ELSE ZeroName(T.elem)

\* operator== of the type: members compare, padding does not.
EqName(name, x, y) ==
    IF name = "S" THEN x.a = y.a /\ x.b = y.b ELSE x = y

ValueEq(T, x, y) ==
    IF is_array_v(T)
    THEN Len(x) = Len(y) /\ \A i \in 1..T.n : EqName(T.elem, x[i], y[i])
    ELSE EqName(T.elem, x, y)

(***************************************************************************)
(* Memory.                                                                 *)
(***************************************************************************)
\* k copies of x.
RECURSIVE Rep(_, _)
Rep(x, k) == IF k = 0 THEN <<>> ELSE <<x>> \o Rep(x, k - 1)

\* std::memcpy(mem + at, bytes, Len(bytes))
memcpy(mem, at, bytes) ==
    [i \in 1..Len(mem) |->
        IF i > at /\ i <= at + Len(bytes) THEN bytes[i - at] ELSE mem[i]]

\* The n bytes of mem from offset at.
Load(mem, at, n) == [i \in 1..n |-> mem[at + i]]

\* std::strlen: the number of bytes before the first zero byte.
RECURSIVE strlen(_)
strlen(str) == IF str[1] = 0 THEN 0 ELSE 1 + strlen(Tail(str))

(***************************************************************************)
(* The encoder.  An encode cursor is [mem, buffer, size, abort]: the       *)
(* memory, the write pointer std::byte *&buffer, the remaining capacity    *)
(* std::size_t &size, and whether an assert has ended the program.  A      *)
(* build b is [legacy, ndebug]: legacy is the older ser version, whose     *)
(* serialize_impl overloads assert on the remaining size and whose to()    *)
(* has no capacity check; ndebug is NDEBUG (assert compiles to nothing).   *)
(* Every serialize_impl returns [e, bytes]: the cursor and its result.     *)
(***************************************************************************)
Aborted(e) == [e EXCEPT !.abort = TRUE]

\* assert(cond) of the legacy overloads: live in the legacy build without
\* NDEBUG, commented out in the eser version.
LegacyAssertFails(b, cond) == b.legacy /\ ~b.ndebug /\ ~cond

Reverse(bs) == [i \in 1..Len(bs) |-> bs[Len(bs) + 1 - i]]

\* serialize_impl for a scalar that copies sizeof(std::int32_t) bytes whatever
\* the type, the bytes behind the value being zero.
serialize_impl_scalar_wide(e, name, scalar, b) ==
    LET scalar_size == SizeofName(name)
        wide == ObjRep(name, scalar) \o Rep(0, 4 - scalar_size)
    IN  [e |-> [e EXCEPT !.mem = memcpy(e.mem, e.buffer, wide),
                         !.buffer = e.buffer + scalar_size,
                         !.size = SizeSub(e.size, scalar_size)],
         bytes |-> scalar_size]

\* serialize_impl for a scalar that stores the most significant byte first.
serialize_impl_scalar_swapped(e, name, scalar, b) ==
    LET scalar_size == SizeofName(name)
    IN  [e |-> [e EXCEPT !.mem = memcpy(e.mem, e.buffer, Reverse(ObjRep(name, scalar))),
                         !.buffer = e.buffer + scalar_size,
                         !.size = SizeSub(e.size, scalar_size)],
         bytes |-> scalar_size]

\* serialize_impl(buffer, size, Scalar scalar), std::is_arithmetic_v<Scalar>
serialize_impl_scalar(e, name, scalar, b) ==
    LET scalar_size == SizeofName(name)
    IN  IF LegacyAssertFails(b, scalar_size <= e.size)
        THEN [e |-> Aborted(e), bytes |-> 0]
        ELSE [e |-> [e EXCEPT !.mem = memcpy(e.mem, e.buffer, ObjRep(name, scalar)),
                              !.buffer = e.buffer + scalar_size,
                              !.size = SizeSub(e.size, scalar_size)],
              bytes |-> scalar_size]

\* serialize_impl(buffer, size, Enum enum_member), std::is_enum_v<Enum>
serialize_impl_enum(e, name, enum_member, b) ==
    serialize_impl_scalar(e, underlying_type_t(Scalar(name)).elem,
                          static_cast_underlying(enum_member), b)

\* serialize_impl(buffer, size, const Struct &str), a trivially copyable class
serialize_impl_struct(e, name, str, b) ==
    LET struct_size == SizeofName(name)
    IN  IF LegacyAssertFails(b, struct_size <= e.size)
        THEN [e |-> Aborted(e), bytes |-> 0]
        ELSE [e |-> [e EXCEPT !.mem = memcpy(e.mem, e.buffer, ObjRep(name, str)),
                              !.buffer = e.buffer + struct_size,
                              !.size = SizeSub(e.size, struct_size)],
              bytes |-> struct_size]

\* serialize_impl for a C string that copies the characters only.
serialize_impl_cstr_bare(e, str, b) ==
    LET length == strlen(str)
    IN  [e |-> [e EXCEPT !.mem = memcpy(e.mem, e.buffer, SubSeq(str, 1, length)),
                         !.buffer = e.buffer + length,
                         !.size = SizeSub(e.size, length)],
         bytes |-> length]

\* serialize_impl(buffer, size, const char *str); str is the memory found
\* from the pointer on.
serialize_impl_cstr(e, str, b) ==
    LET length == strlen(str) + 1
    IN  IF LegacyAssertFails(b, e.size >= length)
        THEN [e |-> Aborted(e), bytes |-> 0]
        ELSE [e |-> [e EXCEPT !.mem = memcpy(e.mem, e.buffer, SubSeq(str, 1, length)),
                              !.buffer = e.buffer + length,
                              !.size = SizeSub(e.size, length)],
              bytes |-> length]

\* The overload chosen for an argument of a type that is no array.
serialize_impl_nonarray(e, name, v, b) ==
    IF is_arithmetic_v(Scalar(name)) THEN serialize_impl_scalar(e, name, v, b)
    ELSE IF is_enum_v(Scalar(name)) THEN serialize_impl_enum(e, name, v, b)
    ELSE serialize_impl_struct(e, name, v, b)

\* The for loop of serialize_impl(buffer, size, const Vector &vector).
RECURSIVE serialize_array_loop(_, _, _, _, _, _)
serialize_array_loop(e, Vector, vector, i, total_bytes, b) ==
    IF i > extent_v(Vector) THEN [e |-> e, bytes |-> total_bytes]
    ELSE LET r == serialize_impl_nonarray(e, Vector.elem, vector[i], b)
         IN  IF r.e.abort THEN [e |-> r.e, bytes |-> total_bytes]
             ELSE IF r.bytes = 0 /\ SizeofName(Vector.elem) > 0
             THEN [e |-> IF b.ndebug THEN r.e ELSE Aborted(r.e), bytes |-> total_bytes]
             ELSE serialize_array_loop(r.e, Vector, vector, i + 1,
                                       (total_bytes + r.bytes) % SizeMod, b)

\* serialize_impl(buffer, size, const Vector &vector), std::is_array_v<Vector>
serialize_impl_array(e, Vector, vector, b) ==
    IF LegacyAssertFails(b, e.size >= sizeof(Vector))
    THEN [e |-> Aborted(e), bytes |-> 0]
    ELSE serialize_array_loop(e, Vector, vector, 1, 0, b)

(***************************************************************************)
(* Overload resolution for serialize_impl(buffer, size, args), args a      *)
(* const lvalue of type T.  For a char array both the array template       *)
(* (identity conversion) and the non-template const char* overload         *)
(* (array-to-pointer conversion) are exact matches, and the non-template   *)
(* function is preferred.  after is what the memory holds behind the       *)
(* array, up to and including the first zero byte.                         *)
(***************************************************************************)
IsCharArray(T) == is_array_v(T) /\ T.elem = "char"

\* std::is_same_v<std::decay_t<T>, const char*> for a T that is no array
IsCharPointer(T) == T.n = 0 /\ T.elem = "cstr"

\* The overload the call selects; "none": no overload is viable and the call
\* does not compile.
serialize_impl_overload(T) ==
    IF IsCharArray(T) \/ IsCharPointer(T) THEN "cstr"
    ELSE IF is_array_v(T) THEN "array"
    ELSE IF is_arithmetic_v(T) THEN "scalar"
    ELSE IF is_enum_v(T) THEN "enum"
    ELSE IF is_class_v(T) /\ is_trivially_copyable_v(T) THEN "struct"
    ELSE "none"

serialize_impl(e, T, v, after, b) ==
    IF e.abort THEN [e |-> e, bytes |-> 0]
    ELSE IF IsCharArray(T) THEN serialize_impl_cstr(e, v \o after, b)
    ELSE IF IsCharPointer(T) THEN serialize_impl_cstr(e, v, b)
    ELSE IF is_array_v(T) THEN serialize_impl_array(e, T, v, b)
    ELSE serialize_impl_nonarray(e, T.elem, v, b)

\* serialize(args...).to(buffer, size) compiles: every argument has a
\* serialize_impl overload and, in the eser version, which computes needed,
\* no type reaches a static_assert of serialized_size_of.
Compiles(Ts, legacy) ==
    \A i \in 1..Len(Ts) :
        /\ serialize_impl_overload(Ts[i]) # "none"
        /\ legacy \/ serialized_size_of(Ts[i]) # Unsupported

\* (... + serialize_impl(buffer, size, args)) over the first k arguments,
\* operands evaluated left to right.
RECURSIVE FoldSerialize(_, _, _, _, _, _)
FoldSerialize(e, Ts, _args, afters, k, b) ==
    IF k = 0 THEN [e |-> e, bytes |-> 0]
    ELSE LET l == FoldSerialize(e, Ts, _args, afters, k - 1, b)
             r == serialize_impl(l.e, Ts[k], _args[k], afters[k], b)
         IN  [e |-> r.e, bytes |-> (l.bytes + r.bytes) % SizeMod]

\* What a to() call leaves: the memory, the value returned, and whether an
\* assert ended the program instead of the call returning.
ToResult(r) == [mem |-> r.e.mem, ret |-> r.bytes, abort |-> r.e.abort]

\* eser::binary::serializer<T...>::to(std::byte *buffer, std::size_t size)
eser_to(Ts, _args, afters, mem, size, ndebug) ==
    LET needed == serialized_size_of_pack(Ts)
        e == [mem |-> mem, buffer |-> 0, size |-> size, abort |-> FALSE]
    IN  IF needed > size
        THEN [mem |-> mem, ret |-> 0, abort |-> ~ndebug]
        ELSE ToResult(FoldSerialize(e, Ts, _args, afters, Len(Ts),
                                    [legacy |-> FALSE, ndebug |-> ndebug]))

\* ser::binary::serializer<T...>::to(std::uint8_t *buffer, std::size_t size)
legacy_to(Ts, _args, afters, mem, size, ndebug) ==
    LET e == [mem |-> mem, buffer |-> 0, size |-> size, abort |-> FALSE]
    IN  ToResult(FoldSerialize(e, Ts, _args, afters, Len(Ts),
                               [legacy |-> TRUE, ndebug |-> ndebug]))

(***************************************************************************)
(* The decoder.  A decode cursor is [data, length, touched, abort]: the    *)
(* read pointer _data, the remaining length _length, the offsets memcpy    *)
(* has read so far (history, for the bounds claims) and whether an assert  *)
(* has ended the program.  Every read returns [d, value].                  *)
(***************************************************************************)
\* deserializer::deserializer(data, length), through deserialize(data, length)
deserializer(data, length) ==
    [data |-> data, length |-> length, touched |-> {}, abort |-> FALSE]

\* deserialize(data, length): data is offset 0 of the memory the pointer
\* refers to; null says the pointer is a null pointer.  assert is live
\* without NDEBUG only.
deserialize(null, length, ndebug) ==
    IF ~ndebug /\ null
    THEN [deserializer(0, length) EXCEPT !.abort = TRUE]
    ELSE deserializer(0, length)

\* deserialize_impl that, short of bytes, consumes what is left.
deserialize_impl_nonarray_drain(d, mem, name) ==
    LET type_size == SizeofName(name)
    IN  IF d.length < type_size
        THEN [d |-> [d EXCEPT !.data = d.data + d.length, !.length = 0],
              value |-> ZeroName(name)]
        ELSE [d |-> [d EXCEPT !.data = d.data + type_size,
                              !.length = SizeSub(d.length, type_size),
                              !.touched = d.touched \cup
                                          (d.data .. (d.data + type_size - 1))],
              value |-> FromRep(name, Load(mem, d.data, type_size))]

\* deserialize_impl with no length check.
deserialize_impl_nonarray_unchecked(d, mem, name) ==
    LET type_size == SizeofName(name)
    IN  [d |-> [d EXCEPT !.data = d.data + type_size,
                         !.length = SizeSub(d.length, type_size),
                         !.touched = d.touched \cup
                                     (d.data .. (d.data + type_size - 1))],
         value |-> FromRep(name, Load(mem, d.data, type_size))]

\* deserialize_impl whose length check is off by one.
deserialize_impl_nonarray_offbyone(d, mem, name) ==
    LET type_size == SizeofName(name)
    IN  IF d.length + 1 < type_size
        THEN [d |-> d, value |-> ZeroName(name)]
        ELSE [d |-> [d EXCEPT !.data = d.data + type_size,
                              !.length = SizeSub(d.length, type_size),
                              !.touched = d.touched \cup
                                          (d.data .. (d.data + type_size - 1))],
              value |-> FromRep(name, Load(mem, d.data, type_size))]

\* deserialize_impl that, short of bytes, copies the bytes that are left into
\* the front of the value and consumes them.
deserialize_impl_nonarray_partial(d, mem, name) ==
    LET type_size == SizeofName(name)
        have == IF d.length < type_size THEN d.length ELSE type_size
    IN  [d |-> [d EXCEPT !.data = d.data + have,
                         !.length = SizeSub(d.length, have),
                         !.touched = d.touched \cup (d.data .. (d.data + have - 1))],
         value |-> FromRep(name, Load(mem, d.data, have) \o Rep(0, type_size - have))]

\* deserialize_impl that consumes its bytes from the pointer but not from the
\* remaining length.
deserialize_impl_nonarray_uncounted(d, mem, name) ==
    LET type_size == SizeofName(name)
    IN  IF d.length < type_size
        THEN [d |-> d, value |-> ZeroName(name)]
        ELSE [d |-> [d EXCEPT !.data = d.data + type_size,
                              !.touched = d.touched \cup
                                          (d.data .. (d.data + type_size - 1))],
              value |-> FromRep(name, Load(mem, d.data, type_size))]

\* deserialize_impl that, short of bytes, gives the cursor up: nothing is
\* left to read after it.
deserialize_impl_nonarray_poisoned(d, mem, name) ==
    LET type_size == SizeofName(name)
    IN  IF d.length < type_size
        THEN [d |-> [d EXCEPT !.length = 0], value |-> ZeroName(name)]
        ELSE [d |-> [d EXCEPT !.data = d.data + type_size,
                              !.length = SizeSub(d.length, type_size),
                              !.touched = d.touched \cup
                                          (d.data .. (d.data + type_size - 1))],
              value |-> FromRep(name, Load(mem, d.data, type_size))]

\* deserialize_impl that, short of bytes, returns what the memory holds at
\* the pointer.
deserialize_impl_nonarray_peek(d, mem, name) ==
    LET type_size == SizeofName(name)
    IN  IF d.length < type_size
        THEN [d |-> d, value |-> FromRep(name, Load(mem, d.data, type_size))]
        ELSE [d |-> [d EXCEPT !.data = d.data + type_size,
                              !.length = SizeSub(d.length, type_size),
                              !.touched = d.touched \cup
                                          (d.data .. (d.data + type_size - 1))],
              value |-> FromRep(name, Load(mem, d.data, type_size))]

\* deserializer::deserialize_impl<T>(), T no array
deserialize_impl_nonarray(d, mem, name) ==
    LET type_size == SizeofName(name)
    IN  IF d.length < type_size
        THEN [d |-> d, value |-> ZeroName(name)]
        ELSE [d |-> [d EXCEPT !.data = d.data + type_size,
                              !.length = SizeSub(d.length, type_size),
                              !.touched = d.touched \cup
                                          (d.data .. (d.data + type_size - 1))],
              value |-> FromRep(name, Load(mem, d.data, type_size))]

\* The array loop with its bound taken from the live _length, which each
\* element read has already reduced, and not from the length saved before.
RECURSIVE deserialize_array_loop_live(_, _, _, _, _)
deserialize_array_loop_live(d, mem, T, array, length) ==
    LET i == Len(array)
        type_size == SizeofName(T.elem)
    IN  IF i < extent_v(T) /\ (i + 1) * type_size <= d.length
        THEN LET r == deserialize_impl_nonarray(d, mem, T.elem)
             IN  deserialize_array_loop_live(r.d, mem, T, Append(array, r.value), length)
        ELSE [d |-> d, value |-> array]

\* The for loop of deserialize_impl<T>(), T an array: array holds the
\* elements read so far, length is _length as saved before the loop.
RECURSIVE deserialize_array_loop(_, _, _, _, _)
deserialize_array_loop(d, mem, T, array, length) ==
    LET i == Len(array)
        type_size == SizeofName(T.elem)
    IN  IF i < extent_v(T) /\ (i + 1) * type_size <= length
        THEN LET r == deserialize_impl_nonarray(d, mem, T.elem)
             IN  deserialize_array_loop(r.d, mem, T, Append(array, r.value), length)
        ELSE [d |-> d, value |-> array]

\* std::fill(array.begin() + i, array.end(), type{})
fill(array, T) ==
    [k \in 1..extent_v(T) |-> IF k <= Len(array) THEN array[k] ELSE ZeroName(T.elem)]

\* deserializer::deserialize_impl<T>(), T an array
deserialize_impl_array(d, mem, T) ==
    LET r == deserialize_array_loop(d, mem, T, <<>>, d.length)
    IN  [d |-> r.d, value |-> fill(r.value, T)]

deserialize_impl(d, mem, T) ==
    IF is_array_v(T) THEN deserialize_impl_array(d, mem, T)
    ELSE deserialize_impl_nonarray(d, mem, T.elem)

\* { deserialize_impl<T>()... }: the elements of a braced list are
\* evaluated in order.
RECURSIVE deserialize_pack(_, _, _, _)
deserialize_pack(d, mem, Ts, k) ==
    IF k = 0 THEN [d |-> d, value |-> <<>>]
    ELSE LET l == deserialize_pack(d, mem, Ts, k - 1)
             r == deserialize_impl(l.d, mem, Ts[k])
         IN  [d |-> r.d, value |-> Append(l.value, r.value)]

RECURSIVE SumSizeof(_)
SumSizeof(Ts) == IF Len(Ts) = 0 THEN 0 ELSE sizeof(Ts[1]) + SumSizeof(Tail(Ts))

\* The to<...>() overload a call with the type list Ts selects; "none": no
\* overload is viable and the call does not compile.
ToOverload(Ts) ==
    IF Len(Ts) > 1 THEN "multi"
    ELSE IF is_array_v(Ts[1]) THEN "array"
    ELSE IF is_scalar_v(Ts[1]) THEN "scalar"
    ELSE "none"

\* deserializer::to<T...>(), sizeof...(T) > 1
to_multi(d, mem, Ts, ndebug) ==
    LET bytes_required == SumSizeof(Ts)
    IN  IF ~ndebug /\ ~(d.length >= bytes_required)
        THEN [d |-> [d EXCEPT !.abort = TRUE], value |-> <<>>]
        ELSE deserialize_pack(d, mem, Ts, Len(Ts))

\* deserializer::to<Vector>(), std::is_array_v<Vector>
to_array(d, mem, Vector, ndebug) ==
    IF ~ndebug /\ ~(d.length >= sizeof(Vector))
    THEN [d |-> [d EXCEPT !.abort = TRUE], value |-> <<>>]
    ELSE LET r == deserialize_impl(d, mem, Vector)
         IN  [d |-> r.d, value |-> <<r.value>>]

\* deserializer::to<Scalar>(), std::is_scalar_v<Scalar>
to_scalar(d, mem, Scalar_, ndebug) ==
    IF ~ndebug /\ ~(sizeof(Scalar_) <= d.length)
    THEN [d |-> [d EXCEPT !.abort = TRUE], value |-> <<>>]
    ELSE LET result == deserialize_impl(d, mem, Scalar_)
         IN  [d |-> result.d, value |-> <<result.value>>]

\* A to<Ts...>() call on the cursor d; value is the tuple of the results
\* (of one element for the single-type overloads).
deserializer_to(d, mem, Ts, ndebug) ==
    CASE ToOverload(Ts) = "multi" -> to_multi(d, mem, Ts, ndebug)
      [] ToOverload(Ts) = "array" -> to_array(d, mem, Ts[1], ndebug)
      [] ToOverload(Ts) = "scalar" -> to_scalar(d, mem, Ts[1], ndebug)

(***************************************************************************)
(* The inputs the model draws from.                                        *)
(***************************************************************************)
TypeLists(U, n) == UNION {[1..k -> U] : k \in 1..n}

\* The types the encoder is given.
EncTypes ==
    {Scalar("uint16"), Scalar("int8"), Scalar("float"), Scalar("E16"), Scalar("S"),
     Array("char", 3), Array("int16", 2)}

Float35 == [s |-> 0, e |-> 128, f |-> 6291456]      \* 3.5f
FloatM1 == [s |-> 1, e |-> 127, f |-> 0]            \* -1.0f

ValuesOf(Ty) ==
    CASE Ty = Scalar("uint16") -> {1234}
      [] Ty = Scalar("int8") -> {-5}
      [] Ty = Scalar("float") -> {Float35, FloatM1}
      [] Ty = Scalar("E16") -> {[enum |-> "E16", v |-> -10]}
      [] Ty = Scalar("S") -> {[a |-> 88, pad |-> 205, b |-> 42]}
      [] Ty = Array("char", 3) -> {<<97, 98, 0>>, <<97, 0, 99>>, <<97, 98, 99>>}
      [] Ty = Array("int16", 2) -> {<<1, -1>>}
      [] Ty = Scalar("cstr") -> {<<104, 105, 0>>, <<0>>}       \* "hi", ""
      [] Ty = Scalar("ptr16") -> {[addr |-> 4660]}

RECURSIVE ValueLists(_)
ValueLists(Ts) ==
    IF Len(Ts) = 0 THEN {<<>>}
    ELSE {<<v>> \o rest : v \in ValuesOf(Ts[1]), rest \in ValueLists(Tail(Ts))}

\* serialize(std::uint16_t(1234), std::int8_t(-5), 3.5f)
ExampleTypes == <<Scalar("uint16"), Scalar("int8"), Scalar("float")>>
ExampleValues == <<1234, -5, Float35>>

EncTypeLists == TypeLists(EncTypes, MaxArity) \cup {ExampleTypes}

EncValueLists(Ts) == IF Ts = ExampleTypes THEN {ExampleValues} ELSE ValueLists(Ts)

\* What the memory can hold behind a char array: bytes that are not zero,
\* then the first zero byte.  strlen reads it only when the array holds no
\* zero byte itself (undefined behaviour: any of these is an outcome).
AfterSet == {Rep(122, k) \o <<0>> : k \in 0..MaxOverread}

Unterminated(Ty, v) == IsCharArray(Ty) /\ \A i \in 1..Len(v) : v[i] # 0

RECURSIVE AfterChoices(_, _)
AfterChoices(Ts, vs) ==
    IF Len(Ts) = 0 THEN {<<>>}
    ELSE {<<a>> \o rest :
             a \in IF Unterminated(Ts[1], vs[1]) THEN AfterSet ELSE {<<0>>},
             rest \in AfterChoices(Tail(Ts), Tail(vs))}

MaxSizeof == CHOOSE m \in {sizeof(Ty) : Ty \in EncTypes} :
                 \A Ty \in EncTypes : sizeof(Ty) <= m

\* Bytes of memory modelled: the caller's buffer and what lies behind it.
MemLen == (MaxArity + 1) * (MaxSizeof + MaxOverread + 1) + MaxSlack

\* The caller's buffer before encoding: every byte 0xAB (fill_buffer).
FillByte == 171

(***************************************************************************)
(* The state.                                                              *)
(***************************************************************************)
VARIABLES
    ndebug,     \* the build defines NDEBUG
    T,          \* the types T... of serialize(T &&...args)
    vals,       \* the caller's values passed to serialize
    _args,      \* serializer::_args, <<>> before serialize: what each element
                \* of the tuple denotes (for an lvalue argument the element is
                \* a reference to the caller's variable)
    lv,         \* lv[i]: argument i of serialize was an lvalue (T_i is U&)
    impl,       \* the serializer used: "eser" or "ser" (the older version)
    mem,        \* the memory: the caller's buffer from offset 0 on
    mem0,       \* mem as it was before the to() call
    cap,        \* the size given to serializer::to
    needed,     \* the constexpr needed of eser's to(), Unsupported before
    ret,        \* the value serializer::to returned
    pc,         \* "start", "bound", "encoded", "cursor", "decoded", "aborted"
    d,          \* the decode cursor
    len0,       \* the length the decode cursor was built with
    R,          \* the types of the last to<R...>() call
    out,        \* the tuple it returned
    pre,        \* the cursor as it was before that call
    src,        \* what the pointer given to deserialize is: "buffer", "nullptr"
    tasks       \* the callers that run side by side, each with a cursor
                \* of its own; <<>> where one caller runs alone

vars == <<ndebug, T, vals, _args, lv, impl, mem, mem0, cap, needed, ret, pc, d, len0,
          R, out, pre, src, tasks>>

NoCursor == deserializer(0, 0)

encVars == <<T, vals, _args, lv, impl, mem0, cap, needed, ret, tasks>>
decVars == <<d, len0, R, out, pre, src, tasks>>

(***************************************************************************)
(* Spec: a caller encodes values and decodes them again.                   *)
(***************************************************************************)
Init ==
    /\ ndebug \in BOOLEAN
    /\ tasks = <<>>
    /\ \E Ts \in EncTypeLists : \E vs \in EncValueLists(Ts) : T = Ts /\ vals = vs
    /\ mem = Rep(FillByte, MemLen)
    /\ mem0 = mem
    /\ _args = <<>>
    /\ lv = [i \in 1..Len(T) |-> FALSE]
    /\ impl = "eser"
    /\ cap = 0
    /\ needed = Unsupported
    /\ ret = 0
    /\ pc = "start"
    /\ d = NoCursor
    /\ len0 = 0
    /\ R = <<>>
    /\ out = <<>>
    /\ pre = NoCursor
    /\ src = "buffer"

\* serialize(args...): the serializer binds the values: _args is
\* std::tuple<T...>, T_i deduced as U for an rvalue (a copy) and as U& for an
\* lvalue (a reference).
Serialize ==
    /\ pc = "start"
    /\ _args' = vals
    /\ pc' = "bound"
    /\ UNCHANGED <<ndebug, T, vals, lv, impl, mem, mem0, cap, needed, ret>>
    /\ UNCHANGED decVars

Capacities(Ts) == 0..(SumSizeof(Ts) + MaxSlack)

\* eser::binary::serializer<T...>::to(buffer, size)
To ==
    /\ pc = "bound"
    /\ Compiles(T, FALSE)
    /\ \E size \in Capacities(T) : \E afters \in AfterChoices(T, _args) :
          LET r == eser_to(T, _args, afters, mem, size, ndebug)
          IN  /\ impl' = "eser"
              /\ cap' = size
              /\ needed' = serialized_size_of_pack(T)
              /\ mem0' = mem
              /\ mem' = r.mem
              /\ ret' = r.ret
              /\ pc' = IF r.abort THEN "aborted" ELSE "encoded"
    /\ UNCHANGED <<ndebug, T, vals, _args, lv>>
    /\ UNCHANGED decVars

\* ser::binary::serializer<T...>::to(buffer, size)
LegacyTo ==
    /\ pc = "bound"
    /\ Compiles(T, TRUE)
    /\ \E size \in Capacities(T) : \E afters \in AfterChoices(T, _args) :
          LET r == legacy_to(T, _args, afters, mem, size, ndebug)
          IN  /\ impl' = "ser"
              /\ cap' = size
              /\ mem0' = mem
              /\ mem' = r.mem
              /\ ret' = r.ret
              /\ pc' = IF r.abort THEN "aborted" ELSE "encoded"
    /\ UNCHANGED <<ndebug, T, vals, _args, lv, needed>>
    /\ UNCHANGED decVars

\* deserialize(buffer, length), over the bytes written or over the whole
\* buffer.
Deserialize ==
    /\ pc = "encoded"
    /\ \E length \in {ret, cap} :
          /\ d' = deserializer(0, length)
          /\ len0' = length
    /\ pc' = "cursor"
    /\ UNCHANGED <<ndebug, mem, R, out, pre, src>>
    /\ UNCHANGED encVars

\* to<T...>() with the types that were encoded.
ReadBack ==
    /\ pc = "cursor"
    /\ ToOverload(T) # "none"
    /\ LET r == deserializer_to(d, mem, T, ndebug)
       IN  /\ d' = r.d
           /\ out' = r.value
           /\ pc' = IF r.d.abort THEN "aborted" ELSE "decoded"
    /\ R' = T
    /\ pre' = d
    /\ UNCHANGED <<ndebug, mem, len0, src>>
    /\ UNCHANGED encVars

Next == Serialize \/ To \/ LegacyTo \/ Deserialize \/ ReadBack

Spec == Init /\ [][Next]_vars

(***************************************************************************)
(* Claims about the encoder and the round trip, checked under Spec.        *)
(***************************************************************************)
\* The encoded size the specification gives a type: sizeof(T) for arithmetic,
\* array and trivially copyable class types, the size of the underlying type
\* (std::int16_t for E16) for an enumeration.
EncodedSize(Ty) ==
    IF Ty.n = 0 /\ Ty.elem = "E16" THEN SizeofName("int16")
    ELSE IF Ty.n > 0 THEN Ty.n * SizeofName(Ty.elem)
    ELSE SizeofName(Ty.elem)

RECURSIVE SumEncodedSize(_)
SumEncodedSize(Ts) ==
    IF Len(Ts) = 0 THEN 0 ELSE EncodedSize(Ts[1]) + SumEncodedSize(Tail(Ts))

\* No argument makes strlen read past a char array.
WellDefined == \A i \in 1..Len(T) : ~Unterminated(T[i], vals[i])

\* The eser to() call returned and its capacity check passed.
EserEncoded == pc = "encoded" /\ impl = "eser" /\ cap >= needed

\* C1: a single value of a supported type, encoded by serialize(v).to(buf, cap)
\* with cap >= sizeof(T) and decoded by deserialize(buf, written).to<T>(), comes
\* back equal to v.
C1_RoundTrip ==
    (/\ pc = "decoded" /\ impl = "eser" /\ Len(T) = 1 /\ WellDefined
     /\ cap >= sizeof(T[1]) /\ len0 = ret)
    => ValueEq(T[1], out[1], vals[1])

\* The round trip of a single value of every type but a char array.
RoundTripButCharArray ==
    (/\ pc = "decoded" /\ impl = "eser" /\ Len(T) = 1 /\ ~IsCharArray(T[1])
     /\ cap >= sizeof(T[1]) /\ len0 = ret)
    => ValueEq(T[1], out[1], vals[1])

\* C2: values (v1..vn) encoded with sufficient capacity and decoded by
\* deserialize(buf, written).to<T1..Tn>() come back in the same positions.
C2_OrderPreserved ==
    (/\ pc = "decoded" /\ impl = "eser" /\ Len(T) >= 2 /\ WellDefined
     /\ cap >= needed /\ len0 = ret)
    => \A i \in 1..Len(T) : ValueEq(T[i], out[i], vals[i])

\* C3: to(buffer, needed) returns needed; to(buffer, needed - 1) returns 0 and
\* leaves every byte of the buffer as it was.
C3_CapacityBoundary ==
    (pc = "encoded" /\ impl = "eser" /\ WellDefined)
    => /\ cap = needed => ret = needed
       /\ cap = needed - 1 => ret = 0 /\ mem = mem0

\* C8: with capacity >= needed, to() returns the number of bytes written, the
\* sum of the per-value sizes, which is the statically computed needed.
C8_ReturnsNeeded ==
    (EserEncoded /\ WellDefined)
    => ret = needed /\ ret = SumEncodedSize(T)

\* C7: for a list of two or more types, serialized_size_of<T1..Tn>() is the
\* sum of the single-type sizes: sizeof(T) for arithmetic, array and class
\* types, sizeof(underlying type) for enums.
C7_SizeAdditive ==
    (needed # Unsupported /\ Len(T) >= 2)
    => /\ needed = SumEncodedSize(T)
       /\ \A i \in 1..Len(T) : serialized_size_of(T[i]) = EncodedSize(T[i])

\* to() has computed the size of a list holding an enum and an array.
C7_Witness ==
    /\ pc = "encoded" /\ impl = "eser" /\ Len(T) >= 2
    /\ \E i, j \in 1..Len(T) : is_enum_v(T[i]) /\ is_array_v(T[j])
    /\ needed = 6

\* C9: a to() call that returns changes no byte at an offset >= the count it
\* returns, inside or outside the capacity it was given.
C9_Frame ==
    pc = "encoded" => \A i \in 1..Len(mem) : i > ret => mem[i] = mem0[i]

\* to() wrote fewer bytes than the capacity: the fill byte still follows them.
C9_Witness ==
    /\ pc = "encoded" /\ impl = "eser" /\ ret > 0 /\ ret < cap
    /\ mem # mem0
    /\ mem[ret + 1] = FillByte /\ mem[cap] = FillByte

\* Byte i (from 0) of the bit pattern of a scalar or enum value: of its
\* two's-complement integer, of the underlying integer of an enum, of the
\* IEEE-754 binary32 word sign * 2^31 + exponent * 2^23 + fraction.
PatternByte(Ty, v, i) ==
    LET x == CASE Ty.elem = "float" ->
                      v.e * Pow2(23) + v.f + v.s * ((-128) * Pow256(3))
               [] Ty.elem = "E16" -> v.v
               [] OTHER -> v
    IN  (x \div Pow256(i)) % 256

ScalarOrEnum(Ty) == is_arithmetic_v(Ty) \/ is_enum_v(Ty)

\* The offset of the k-th value in the encoding of the type list Ts.
WireOffset(Ts, k) == SumEncodedSize(SubSeq(Ts, 1, k - 1))

NoCharArrayBefore(Ts, k) == \A j \in 1..(k - 1) : ~IsCharArray(Ts[j])

\* C10: a scalar or enum of width w is encoded as the w bytes of its bit
\* pattern, least significant first, and decoded from them the same way;
\* (uint16 1234, int8 -5, float 3.5) encodes as D2 04 FB 00 00 60 40.
C10_LittleEndian ==
    /\ (pc = "encoded" /\ (impl = "ser" \/ cap >= needed))
       => /\ \A k \in 1..Len(T) :
                (ScalarOrEnum(T[k]) /\ NoCharArrayBefore(T, k))
                => \A i \in 0..(EncodedSize(T[k]) - 1) :
                      mem[WireOffset(T, k) + i + 1] = PatternByte(T[k], vals[k], i)
          /\ T = ExampleTypes
             => /\ SubSeq(mem, 1, 7) = <<210, 4, 251, 0, 0, 96, 64>>
                /\ ret = 7
    /\ (pc = "decoded" /\ pre.length >= SumEncodedSize(R))
       => \A k \in 1..Len(R) :
             ScalarOrEnum(R[k])
             => \A i \in 0..(EncodedSize(R[k]) - 1) :
                   PatternByte(R[k], out[k], i) = mem[WireOffset(R, k) + i + 1]

\* The example sequence has been encoded and decoded again.
C10_Witness ==
    /\ pc = "decoded" /\ T = ExampleTypes /\ vals = ExampleValues
    /\ ret = 7 /\ out = ExampleValues

(***************************************************************************)
(* SpecDec: a caller builds a decode cursor over the first len0 bytes of   *)
(* a buffer and reads from it, any types in any order.                     *)
(***************************************************************************)
MaxLen == 10        \* longest region a decode cursor is built over

\* The types read alone, and the types read in lists of two or more.
DecTypes ==
    {Scalar("int32"), Scalar("uint16"), Scalar("int8"), Scalar("float"),
     Scalar("E16"), Scalar("ptr16"), Array("int32", 4), Array("uint16", 2)}

DecPackTypes == {Scalar("uint16"), Scalar("int32"), Scalar("S"), Array("uint16", 2)}

DecTypeLists ==
    {<<Ty>> : Ty \in DecTypes} \cup
    UNION {[1..k -> DecPackTypes] : k \in 2..MaxArity}

MaxDecSizeof == CHOOSE m \in {sizeof(Ty) : Ty \in DecTypes \cup DecPackTypes} :
                    \A Ty \in DecTypes \cup DecPackTypes : sizeof(Ty) <= m

\* The memory holds bytes behind the region too.
DecMemLen == MaxLen + MaxDecSizeof

DecBuffers == {[i \in 1..DecMemLen |-> i], [i \in 1..DecMemLen |-> 256 - i]}

InitDec ==
    /\ ndebug \in BOOLEAN
    /\ tasks = <<>>
    /\ mem \in DecBuffers
    /\ mem0 = mem
    /\ T = <<>>
    /\ vals = <<>>
    /\ _args = <<>>
    /\ lv = [i \in 1..Len(T) |-> FALSE]
    /\ impl = "eser"
    /\ cap = 0
    /\ needed = Unsupported
    /\ ret = 0
    /\ len0 \in 0..MaxLen
    /\ d = deserializer(0, len0)
    /\ pc = "cursor"
    /\ R = <<>>
    /\ out = <<>>
    /\ pre = NoCursor
    /\ src = "buffer"

\* A to<Ts...>() call on the cursor.
Call(Ts) ==
    /\ pc \in {"cursor", "decoded"}
    /\ LET r == deserializer_to(d, mem, Ts, ndebug)
       IN  /\ d' = r.d
           /\ out' = r.value
           /\ pc' = IF r.d.abort THEN "aborted" ELSE "decoded"
    /\ R' = Ts
    /\ pre' = d
    /\ UNCHANGED <<ndebug, mem, len0, src>>
    /\ UNCHANGED encVars

\* deserializer::to<Scalar>()
ToScalar == \E Ts \in DecTypeLists : ToOverload(Ts) = "scalar" /\ Call(Ts)

\* deserializer::to<Vector>()
ToArray == \E Ts \in DecTypeLists : ToOverload(Ts) = "array" /\ Call(Ts)

\* deserializer::to<T...>()
ToMulti == \E Ts \in DecTypeLists : ToOverload(Ts) = "multi" /\ Call(Ts)

NextDec == ToScalar \/ ToArray \/ ToMulti

SpecDec == InitDec /\ [][NextDec]_vars

(***************************************************************************)
(* Claims about the decoder, checked under SpecDec.                        *)
(***************************************************************************)
Min(a, b) == IF a < b THEN a ELSE b

RECURSIVE ZeroTuple(_)
ZeroTuple(Ts) == IF Len(Ts) = 0 THEN <<>> ELSE <<Zero(Ts[1])>> \o ZeroTuple(Tail(Ts))

NoCharArray(Ts) == \A i \in 1..Len(Ts) : ~IsCharArray(Ts[i])

\* The first value of the list that does not fit a capacity c any more, after
\* the values before it; 0 when all of them fit.
FirstOverflow(Ts, c) ==
    IF SumEncodedSize(Ts) <= c THEN 0
    ELSE CHOOSE k \in 1..Len(Ts) :
            /\ SumEncodedSize(SubSeq(Ts, 1, k)) > c
            /\ SumEncodedSize(SubSeq(Ts, 1, k - 1)) <= c

\* The bytes the wire format gives a value: the object representation, of
\* each element in turn for an array.
RECURSIVE Encoding(_, _)
Encoding(Ty, v) ==
    IF Ty.n = 0 THEN ObjRep(Ty.elem, v)
    ELSE IF Len(v) = 0 THEN <<>>
    ELSE ObjRep(Ty.elem, v[1]) \o Encoding(Ty, Tail(v))

RECURSIVE EncodingOfList(_, _)
EncodingOfList(Ts, vs) ==
    IF Len(Ts) = 0 THEN <<>>
    ELSE Encoding(Ts[1], vs[1]) \o EncodingOfList(Tail(Ts), Tail(vs))

\* The to() call has ended, by returning or in an assert, and nothing has
\* been read back yet.
EncodeEnded == (pc = "encoded" \/ pc = "aborted") /\ R = <<>>

\* C11: the ser version's to(), which has no capacity check, given a buffer the
\* values do not all fit: the values before the first that does not fit are
\* written whole and in order, no byte of that value and no byte at or beyond
\* buffer + capacity is written, and the call returns 0.
C11_NoCheckStopsBeforeOverflow ==
    (/\ EncodeEnded /\ impl = "ser" /\ NoCharArray(T)
     /\ FirstOverflow(T, cap) > 0)
    => LET k == FirstOverflow(T, cap)
           fit == SumEncodedSize(SubSeq(T, 1, k - 1))
       IN  /\ pc = "encoded" /\ ret = 0
           /\ SubSeq(mem, 1, fit) = EncodingOfList(SubSeq(T, 1, k - 1), SubSeq(vals, 1, k - 1))
           /\ \A i \in 1..Len(mem) : i > fit => mem[i] = mem0[i]

\* The same, for the builds where assert is live only: the program may end in
\* the assert, but no byte at or beyond buffer + capacity is written.
LegacyDebugNoOverflow ==
    (EncodeEnded /\ impl = "ser" /\ ~ndebug /\ NoCharArray(T))
    => \A i \in 1..Len(mem) : i > cap => mem[i] = mem0[i]

(***************************************************************************)
(* SpecNull: a caller hands deserialize a pointer, null or not, and reads  *)
(* from what it gets.                                                      *)
(***************************************************************************)
InitNull ==
    /\ ndebug \in BOOLEAN
    /\ tasks = <<>>
    /\ mem \in DecBuffers
    /\ mem0 = mem
    /\ T = <<>>
    /\ vals = <<>>
    /\ _args = <<>>
    /\ lv = [i \in 1..Len(T) |-> FALSE]
    /\ impl = "eser"
    /\ cap = 0
    /\ needed = Unsupported
    /\ ret = 0
    /\ len0 \in 0..MaxLen
    /\ src \in {"buffer", "nullptr"}
    /\ d = NoCursor
    /\ pc = "start"
    /\ R = <<>>
    /\ out = <<>>
    /\ pre = NoCursor

\* deserialize(data, length)
Construct ==
    /\ pc = "start"
    /\ d' = deserialize(src = "nullptr", len0, ndebug)
    /\ pc' = IF d'.abort THEN "aborted" ELSE "cursor"
    /\ UNCHANGED <<ndebug, mem, len0, R, out, pre, src>>
    /\ UNCHANGED encVars

\* The to<Ts...>() call makes memcpy read through _data.
Dereferences(Ts) == deserializer_to(d, mem, Ts, ndebug).d.touched # d.touched

\* A to<Ts...>() call that reads through a pointer into the buffer, or that
\* reads nothing.
Read ==
    \E Ts \in DecTypeLists :
        /\ src = "buffer" \/ ~Dereferences(Ts)
        /\ Call(Ts)

\* A to<Ts...>() call whose memcpy reads through a null pointer: undefined
\* behaviour.  The program ends in a fault, or the read goes on with whatever
\* bytes the address holds (mem stands for them).
ReadNull ==
    /\ pc \in {"cursor", "decoded"}
    /\ src = "nullptr"
    /\ \E Ts \in DecTypeLists : \E fault \in BOOLEAN :
          /\ Dereferences(Ts)
          /\ LET r == deserializer_to(d, mem, Ts, ndebug)
             IN  /\ d' = r.d
                 /\ out' = IF fault THEN <<>> ELSE r.value
                 /\ pc' = IF fault THEN "fault" ELSE "decoded"
          /\ R' = Ts
    /\ pre' = d
    /\ UNCHANGED <<ndebug, mem, len0, src>>
    /\ UNCHANGED encVars

NextNull == Construct \/ Read \/ ReadNull

SpecNull == InitNull /\ [][NextNull]_vars

\* C12: deserialize(data, length) with a null data pointer yields no decode
\* cursor (construction does not proceed), and no read goes through the null
\* pointer.
C12_NullSourceRejected ==
    src = "nullptr" => pc \in {"start", "aborted"} /\ d.touched = {}

\* With assert live, deserialize(nullptr, length) ends the program.
NullSourceAssertsInDebug ==
    (src = "nullptr" /\ ~ndebug) => pc \in {"start", "aborted"} /\ d.touched = {}

(***************************************************************************)
(* Claims about the decode cursor over a sequence of reads, under SpecDec. *)
(***************************************************************************)
\* C13: in every step the remaining length does not increase; a cursor with
\* bytes left becomes exhausted (no bytes left) only in a step that reads the
\* last byte of its region; an exhausted cursor stays exhausted.
C13_CursorStateMachine ==
    [][/\ d'.length <= d.length
       /\ (d.length > 0 /\ d'.length = 0)
          => /\ (len0 - 1) \in (d'.touched \ d.touched)
             /\ d'.data = len0
       /\ d.length = 0 => d'.length = 0]_vars

\* The last read took a cursor with bytes left to the end of its region.
C13_Witness ==
    /\ pc = "decoded" /\ pre.length > 0 /\ pre.data > 0
    /\ d.length = 0 /\ d.data = len0
    /\ (len0 - 1) \in d.touched

\* C14: with assert compiled out, in a to<T1..Tn>() call from the first Ti
\* that the bytes left do not suffice for, Ti and every later element come
\* back zero.
C14_ZeroFromFirstShort ==
    (/\ pc = "decoded" /\ ndebug /\ Len(R) >= 2
     /\ FirstOverflow(R, pre.length) > 0)
    => \A j \in FirstOverflow(R, pre.length)..Len(R) : out[j] = Zero(R[j])

\* The part of it that concerns Ti alone, Ti no array.
FirstShortScalarIsZero ==
    (/\ pc = "decoded" /\ ndebug /\ Len(R) >= 2
     /\ FirstOverflow(R, pre.length) > 0
     /\ ~is_array_v(R[FirstOverflow(R, pre.length)]))
    => out[FirstOverflow(R, pre.length)] = Zero(R[FirstOverflow(R, pre.length)])

(***************************************************************************)
(* SpecStr: a caller encodes lists that hold text: const char* values and  *)
(* char arrays, beside a scalar and a pointer that is no const char*.      *)
(***************************************************************************)
StrTypes == {Scalar("cstr"), Array("char", 3), Scalar("uint16"), Scalar("ptr16")}

StrTypeLists == TypeLists(StrTypes, MaxArity)

InitStr ==
    /\ ndebug \in BOOLEAN
    /\ tasks = <<>>
    /\ \E Ts \in StrTypeLists : \E vs \in ValueLists(Ts) : T = Ts /\ vals = vs
    /\ mem = Rep(FillByte, MemLen)
    /\ mem0 = mem
    /\ _args = <<>>
    /\ lv = [i \in 1..Len(T) |-> FALSE]
    /\ impl = "eser"
    /\ cap = 0
    /\ needed = Unsupported
    /\ ret = 0
    /\ pc = "start"
    /\ d = NoCursor
    /\ len0 = 0
    /\ R = <<>>
    /\ out = <<>>
    /\ pre = NoCursor
    /\ src = "buffer"

NextStr == Serialize \/ To \/ LegacyTo

SpecStr == InitStr /\ [][NextStr]_vars

\* The value is a null-terminated text: what a const char* points to, or a
\* char array that holds a zero byte.
IsText(Ty, v) == IsCharPointer(Ty) \/ (IsCharArray(Ty) /\ ~Unterminated(Ty, v))

\* C15: a null-terminated text of content length n, encoded first in a list,
\* is written as its n content bytes and one zero byte from offset 0 (no
\* length prefix); to() of the text alone returns n + 1 and writes nothing
\* else; a value that follows it is written from offset n + 1.
C15_CStringEncoding ==
    (/\ pc = "encoded" /\ IsText(T[1], vals[1])
     /\ impl = "ser" \/ cap >= needed)
    => LET n == strlen(vals[1])
       IN  /\ \A i \in 1..n : mem[i] = vals[1][i]
           /\ mem[n + 1] = 0
           /\ Len(T) = 1
              => ret = n + 1 /\ \A i \in 1..Len(mem) : i > n + 1 => mem[i] = mem0[i]
           /\ (Len(T) = 2 /\ T[2] = Scalar("uint16"))
              => /\ SubSeq(mem, n + 2, n + 3) = ObjRep("uint16", vals[2])
                 /\ ret = n + 3

\* serialize("hi", std::uint16_t(1234)) of the ser version wrote 68 69 00 D2 04.
C15_Witness ==
    /\ pc = "encoded" /\ impl = "ser"
    /\ T = <<Scalar("cstr"), Scalar("uint16")>> /\ vals = <<(<<104, 105, 0>>), 1234>>
    /\ ret = 5 /\ SubSeq(mem, 1, 6) = <<104, 105, 0, 210, 4, FillByte>>

\* The needed the specification gives a list: content length + 1 for a text,
\* the static size for any other value.
RECURSIVE NeededWithText(_, _)
NeededWithText(Ts, vs) ==
    IF Len(Ts) = 0 THEN 0
    ELSE (IF IsText(Ts[1], vs[1]) THEN strlen(vs[1]) + 1 ELSE EncodedSize(Ts[1]))
         + NeededWithText(Tail(Ts), Tail(vs))

HoldsText == \E i \in 1..Len(T) : IsText(T[i], vals[i])

\* C16: for a list that holds text values, to(buffer, capacity) computes
\* needed as the static sizes of the other values plus content length + 1 for
\* each text, and returns 0 without writing when that exceeds the capacity.
C16_NeededCountsText ==
    (pc = "encoded" /\ impl = "eser" /\ HoldsText /\ WellDefined)
    => /\ needed = NeededWithText(T, vals)
       /\ NeededWithText(T, vals) > cap => ret = 0 /\ mem = mem0

\* What is left of it: to() returns 0 without writing when the needed it
\* computes from the types alone exceeds the capacity.
StaticNeededGuards ==
    (pc = "encoded" /\ impl = "eser" /\ needed > cap) => ret = 0 /\ mem = mem0

(***************************************************************************)
(* Claims about the classification of types.                               *)
(***************************************************************************)
Strategies == {"scalar", "enum", "array", "struct", "cstr"}

\* C17: for every type of a list that to() has encoded, the size calculator
\* and the encoder each pick one of the five strategies, and they pick the
\* same one.
C17_SameStrategy ==
    (pc = "encoded" /\ impl = "eser")
    => \A i \in 1..Len(T) :
          /\ serialized_size_of_branch(T[i]) \in Strategies
          /\ serialize_impl_overload(T[i]) \in Strategies
          /\ serialized_size_of_branch(T[i]) = serialize_impl_overload(T[i])

\* The same, for every type but a char array.
SameStrategyButCharArray ==
    (pc = "encoded" /\ impl = "eser")
    => \A i \in 1..Len(T) :
          ~IsCharArray(T[i])
          => /\ serialized_size_of_branch(T[i]) \in Strategies
             /\ serialized_size_of_branch(T[i]) = serialize_impl_overload(T[i])

\* A type of the supported universe: one the size calculator or the encoder
\* gives one of the five strategies.
Supported(Ty) ==
    serialized_size_of_branch(Ty) \in Strategies \/ serialize_impl_overload(Ty) \in Strategies

\* C18: no value of a type outside the five strategies is encoded by to() or
\* decoded by to<T>() at run time: such a call does not compile.
C18_UnsupportedRejected ==
    /\ pc = "encoded" => \A i \in 1..Len(T) : Supported(T[i])
    /\ pc = "decoded" => \A i \in 1..Len(R) : Supported(R[i])

\* The encode half of it, for serialize(...).to(...) of either version.
EncodeRejectsUnsupported ==
    (pc = "encoded" \/ (pc = "aborted" /\ R = <<>>)) => \A i \in 1..Len(T) : Supported(T[i])

(***************************************************************************)
(* SpecRef: a caller passes variables (lvalues) or temporaries (rvalues)   *)
(* to serialize, may assign to its variables, and calls to().              *)
(***************************************************************************)
RefTypes == {Scalar("float"), Array("char", 3), Scalar("uint16")}

RefTypeLists == TypeLists(RefTypes, MaxArity)

InitRef ==
    /\ ndebug \in BOOLEAN
    /\ tasks = <<>>
    /\ \E Ts \in RefTypeLists : \E vs \in ValueLists(Ts) : T = Ts /\ vals = vs
    /\ lv \in [1..Len(T) -> BOOLEAN]
    /\ mem = Rep(FillByte, MemLen)
    /\ mem0 = mem
    /\ _args = <<>>
    /\ impl = "eser"
    /\ cap = 0
    /\ needed = Unsupported
    /\ ret = 0
    /\ pc = "start"
    /\ d = NoCursor
    /\ len0 = 0
    /\ R = <<>>
    /\ out = <<>>
    /\ pre = NoCursor
    /\ src = "buffer"

\* Between serialize(...) and to(...) the caller assigns to a variable it
\* passed.  An element of _args that is a reference denotes the new value.
Modify ==
    /\ pc = "bound"
    /\ \E i \in 1..Len(T) : \E v \in ValuesOf(T[i]) :
          /\ lv[i]
          /\ v # vals[i]
          /\ vals' = [vals EXCEPT ![i] = v]
          /\ _args' = [_args EXCEPT ![i] = v]
    /\ UNCHANGED <<ndebug, T, lv, impl, mem, mem0, cap, needed, ret, pc>>
    /\ UNCHANGED decVars

NextRef == Serialize \/ Modify \/ To \/ LegacyTo

SpecRef == InitRef /\ [][NextRef]_vars

\* C19: once serialize(v1..vn) has bound the values, what the serializer
\* encodes does not change: not by to(), and not by anything the caller does
\* before to(), assigning to a variable it passed included.
C19_BoundSequenceImmutable ==
    [][pc # "start" => _args' = _args]_vars

\* to() itself leaves the bound sequence alone.
ToLeavesArgs ==
    [][pc' \in {"encoded", "aborted"} => _args' = _args]_vars

\* Values passed as rvalues are copied: the sequence bound from rvalues only
\* never changes.
RvaluesAreCopied ==
    [][(pc # "start" /\ \A i \in 1..Len(T) : ~lv[i]) => _args' = _args]_vars

(***************************************************************************)
(* Claims about the encoded length, under Spec.                            *)
(***************************************************************************)
\* C20: encoding one value of a type T that is no const char* (a char array
\* included) writes exactly serialized_size_of<T>() bytes, the encoding of
\* the value, whatever the value is.
C20_LengthFromTypeAlone ==
    (EserEncoded /\ Len(T) = 1 /\ WellDefined)
    => LET size == serialized_size_of(T[1])
       IN  /\ ret = size
           /\ SubSeq(mem, 1, size) = Encoding(T[1], vals[1])
           /\ \A i \in 1..Len(mem) : i > size => mem[i] = mem0[i]

\* The same, for every type but a char array.
LengthFromTypeButCharArray ==
    (EserEncoded /\ Len(T) = 1 /\ ~IsCharArray(T[1]))
    => LET size == serialized_size_of(T[1])
       IN  /\ ret = size
           /\ SubSeq(mem, 1, size) = Encoding(T[1], vals[1])
           /\ \A i \in 1..Len(mem) : i > size => mem[i] = mem0[i]

(***************************************************************************)
(* Claims about the wire format of arrays, under Spec.                     *)
(***************************************************************************)
\* The bytes element i (from 0) of the k-th value, an array, has on the wire
\* when the array's encoding starts at its offset in the list.
ElementBytes(k, i) ==
    SubSeq(mem, WireOffset(T, k) + i * SizeofName(T[k].elem) + 1,
                WireOffset(T, k) + (i + 1) * SizeofName(T[k].elem))

\* C23: an array of N elements of type E is encoded as the encodings of the
\* elements 0..N-1, contiguous and in ascending order: element i occupies the
\* bytes [i * sizeof(E), (i + 1) * sizeof(E)) of the array's encoding, and an
\* array alone makes to() return N * sizeof(E).
C23_ArrayWireFormat ==
    (EserEncoded /\ WellDefined)
    => \A k \in 1..Len(T) :
          (is_array_v(T[k]) /\ NoCharArrayBefore(T, k))
          => /\ \A i \in 0..(T[k].n - 1) :
                   ElementBytes(k, i) = ObjRep(T[k].elem, vals[k][i + 1])
             /\ Len(T) = 1 => ret = T[k].n * SizeofName(T[k].elem)

\* The same for every array whose elements are not char, in both
\* implementations.
ArrayWireFormatButCharArray ==
    (pc = "encoded" /\ (impl = "ser" \/ cap >= needed))
    => \A k \in 1..Len(T) :
          (is_array_v(T[k]) /\ ~IsCharArray(T[k]) /\ NoCharArrayBefore(T, k))
          => /\ \A i \in 0..(T[k].n - 1) :
                   ElementBytes(k, i) = ObjRep(T[k].elem, vals[k][i + 1])
             /\ Len(T) = 1 => ret = T[k].n * SizeofName(T[k].elem)

(***************************************************************************)
(* Claims about what a read consumes, under SpecDec.                       *)
(***************************************************************************)
\* The bytes the reads of the types Ts, in order, consume from L bytes as the
\* specification has it: a scalar, enum or aggregate its size when that much
\* is left and nothing otherwise, an array the size of the elements that fit.
RECURSIVE Consumed(_, _)
Consumed(Ts, L) ==
    IF Len(Ts) = 0 THEN 0
    ELSE LET s == IF is_array_v(Ts[1])
                  THEN Min(Ts[1].n, L \div SizeofName(Ts[1].elem)) * SizeofName(Ts[1].elem)
                  ELSE IF L >= sizeof(Ts[1]) THEN sizeof(Ts[1]) ELSE 0
         IN  s + Consumed(Tail(Ts), L - s)

C25_DecodeAccounting ==
    /\ d.data + d.length = len0
    /\ pc = "decoded"
       => /\ d.data - pre.data = pre.length - d.length
          /\ (d.touched \ pre.touched) \subseteq (pre.data .. (d.data - 1))
          /\ pre.length >= SumSizeof(R)
             => /\ d.data = pre.data + SumSizeof(R)
                /\ d.length = pre.length - SumSizeof(R)
                /\ d.touched = pre.touched \cup (pre.data .. (d.data - 1))

\* to<std::uint16_t, std::int32_t>() on a cursor that had read before and had
\* 6 bytes or more left.
C25_Witness ==
    /\ pc = "decoded" /\ R = <<Scalar("uint16"), Scalar("int32")>>
    /\ pre.data > 0 /\ pre.length >= 6
    /\ d.data = pre.data + 6 /\ d.length = pre.length - 6

(***************************************************************************)
(* SpecPar: two callers run side by side in one program, each with a       *)
(* serializer or a decode cursor of its own and a buffer of its own, the   *)
(* second buffer right behind the first in memory.  A caller makes the     *)
(* calls of its programme in order; a call runs in steps, a step being the *)
(* entry into to(), the write or read of one value (of one element for an  *)
(* array), or the return.  A caller is a record:                           *)
(*   kind     "eser", "ser" (the two encoders) or "dec" (a decode cursor)  *)
(*   prog     the type lists of its calls: T... of the serializer once per *)
(*            to(buffer, size) call, or the T... of each to<T...>() call   *)
(*   _args, lv, afters   the serializer's values, which of them are        *)
(*            references to variables of the caller, and the memory behind *)
(*            its char arrays                                              *)
(*   buffer, size   the caller's buffer                                    *)
(*   pc, call, k, i   "idle", "call", "done" or "aborted"; the calls that  *)
(*            have returned; the values and the array elements done in the *)
(*            running call                                                 *)
(*   e, bytes, total_bytes   of a running to(): the cursor (its parameters *)
(*            buffer and size), the sum of the fold so far, total_bytes of *)
(*            the array loop                                               *)
(*   d, length, array, values   the decode cursor (_data, _length); of a   *)
(*            running to<T...>(): length and array of the array loop, the  *)
(*            values read so far                                           *)
(*   rets     what the calls returned: [ret, contents] for to(), contents  *)
(*            being the caller's buffer at the return; the tuple of values *)
(*            for to<T...>()                                               *)
(*   steps    the steps taken so far                                       *)
(***************************************************************************)
MaxSteps == 12      \* no caller takes more steps than this

\* The serializers the callers hold, by number n and variant v.
ParTypes(n) ==
    CASE n = 1 -> <<Scalar("float")>>
      [] n = 2 -> <<Scalar("int8"), Scalar("uint16")>>
      [] n = 3 -> <<Array("char", 3)>>
      [] n = 4 -> <<Array("int16", 2), Scalar("int8")>>

ParValues(n, v) ==
    CASE n = 1 -> <<Float35>>
      [] n = 2 -> <<-5, 1234>>
      [] n = 3 -> <<IF v = 1 THEN <<97, 0, 99>> ELSE <<97, 98, 99>>>>
      [] n = 4 -> <<<<1, -1>>, -5>>

\* Variant 2 of serializer 1 was given a variable, the others temporaries.
ParLvalues(n, v) == [i \in 1..Len(ParTypes(n)) |-> n = 1 /\ v = 2]

\* Behind the unterminated char array the memory holds a zero byte (variant
\* 2) or one more character and then a zero byte (variant 3).
ParAfters(n, v) ==
    [i \in 1..Len(ParTypes(n)) |-> IF n = 3 /\ v = 3 THEN <<122, 0>> ELSE <<0>>]

ParVariants(n) == CASE n = 1 -> 1..2 [] n = 3 -> 1..3 [] OTHER -> {1}

\* to(buffer, size) is called twice on serializer 1, once on the others.
ParCalls(n) == IF n = 1 THEN <<ParTypes(n), ParTypes(n)>> ELSE <<ParTypes(n)>>

ParCapacities(n) ==
    CASE n = 1 -> {4}
      [] n = 2 -> {0, 2, 3}
      [] n = 3 -> {3}
      [] n = 4 -> {1, 5}

\* The to<T...>() calls the decoding callers make, and the lengths of their
\* regions.
ParReads(n) ==
    CASE n = 5 -> <<<<Scalar("int32")>>, <<Scalar("uint16")>>>>
      [] n = 6 -> <<<<Array("uint16", 2)>>, <<Scalar("int8")>>>>
      [] n = 7 -> <<<<Scalar("uint16"), Scalar("S")>>>>

ParLengths(n) ==
    CASE n = 5 -> {0, 2, 6}
      [] n = 6 -> {3, 4}
      [] n = 7 -> {4, 6}

ParParams ==
    {[kind |-> kd, n |-> n, v |-> v, c |-> c] :
        kd \in {"eser", "ser"}, n \in 1..4, v \in 1..3, c \in 0..5}
    \cup {[kind |-> "dec", n |-> n, v |-> 1, c |-> c] : n \in 5..7, c \in 0..6}

ParChoices ==
    {p \in ParParams :
        IF p.kind = "dec" THEN p.c \in ParLengths(p.n)
        ELSE p.v \in ParVariants(p.n) /\ p.c \in ParCapacities(p.n)}

MaxParSize == CHOOSE m \in {p.c : p \in ParChoices} : \A p \in ParChoices : p.c <= m

\* The two buffers and the memory behind them that an encoder without a
\* capacity check can reach from the second.
ParMemLen == 2 * MaxParSize + MaxSizeof + MaxOverread + 1

NoEncodeCursor == [buffer |-> 0, size |-> 0, abort |-> FALSE]

\* serialize(args...) or deserialize(buffer, size), and the caller that holds
\* the result.
NewCaller(p, buffer) ==
    [kind |-> p.kind,
     prog |-> IF p.kind = "dec" THEN ParReads(p.n) ELSE ParCalls(p.n),
     _args |-> IF p.kind = "dec" THEN <<>> ELSE ParValues(p.n, p.v),
     lv |-> IF p.kind = "dec" THEN <<>> ELSE ParLvalues(p.n, p.v),
     afters |-> IF p.kind = "dec" THEN <<>> ELSE ParAfters(p.n, p.v),
     buffer |-> buffer,
     size |-> p.c,
     pc |-> "idle",
     call |-> 0,
     k |-> 0,
     i |-> 0,
     e |-> NoEncodeCursor,
     bytes |-> 0,
     total_bytes |-> 0,
     d |-> IF p.kind = "dec" THEN deserializer(buffer, p.c) ELSE NoCursor,
     length |-> 0,
     array |-> <<>>,
     values |-> <<>>,
     rets |-> <<>>,
     steps |-> 0]

\* Both buffers hold 1, 2, 3, ... from their first byte on; behind the second
\* buffer the memory holds the fill byte.
ParMemory(size1, size2) ==
    [o \in 1..ParMemLen |->
        IF o <= size1 THEN o
        ELSE IF o <= size1 + size2 THEN o - size1
        ELSE FillByte]

\* An array loop that forgets ++i
SameIndex(i) == i

\* ++i of the array loops
NextIndex(i) == i + 1

\* A call returns: the caller goes on to its next call, or is done.
Returned(s, result) ==
    [s EXCEPT !.rets = Append(@, result),
              !.call = @ + 1,
              !.pc = IF s.call + 1 = Len(s.prog) THEN "done" ELSE "idle",
              !.steps = @ + 1]

\* What to(buffer, size) leaves the caller with: the value returned and the
\* buffer.
ToReturn(s, m, count) ==
    [ret |-> count, contents |-> SubSeq(m, s.buffer + 1, s.buffer + s.size)]

\* serializer<T...>::to(buffer, size) up to the fold: the capacity check of
\* the eser version; buffer and size are the cursor of this call.
to_enter(s, m, nd) ==
    LET Ts == s.prog[s.call + 1]
    IN  IF s.kind = "eser" /\ serialized_size_of_pack(Ts) > s.size
        THEN IF nd
             THEN [s |-> Returned(s, ToReturn(s, m, 0)), mem |-> m]
             ELSE [s |-> [s EXCEPT !.pc = "aborted", !.steps = @ + 1], mem |-> m]
        ELSE [s |-> [s EXCEPT !.pc = "call",
                              !.e = [buffer |-> s.buffer, size |-> s.size,
                                     abort |-> FALSE],
                              !.k = 0, !.i = 0, !.bytes = 0, !.total_bytes = 0,
                              !.steps = @ + 1],
              mem |-> m]

\* What a serialize_impl that is no loop leaves: the operand is done.
operand(r) ==
    [e |-> r.e, i |-> 0, total_bytes |-> 0, ended |-> TRUE, bytes |-> r.bytes]

\* One turn of the loop of serialize_impl for an array, r being what
\* serialize_impl(buffer, size, vector[i]) returned: the break, or
\* total_bytes += bytes and ++i, and after the last turn return total_bytes.
array_turn(r, Ty, i, total_bytes, b) ==
    IF r.e.abort
    THEN [e |-> r.e, i |-> i, total_bytes |-> total_bytes, ended |-> FALSE, bytes |-> 0]
    ELSE IF r.bytes = 0 /\ SizeofName(Ty.elem) > 0
    THEN [e |-> IF b.ndebug THEN r.e ELSE Aborted(r.e), i |-> 0,
          total_bytes |-> 0, ended |-> TRUE, bytes |-> total_bytes]
    ELSE IF NextIndex(i) < extent_v(Ty)
    THEN [e |-> r.e, i |-> NextIndex(i),
          total_bytes |-> (total_bytes + r.bytes) % SizeMod,
          ended |-> FALSE, bytes |-> 0]
    ELSE [e |-> r.e, i |-> 0, total_bytes |-> 0, ended |-> TRUE,
          bytes |-> (total_bytes + r.bytes) % SizeMod]

\* One operand of the fold (... + serialize_impl(buffer, size, args)), or for
\* an array one turn of the loop in serialize_impl (before the first, the
\* assert of the ser version): e is the cursor with the memory, the result
\* says whether the operand is done (ended) and its value (bytes).
serialize_step(e, Ty, v, after, i, total_bytes, b) ==
    IF serialize_impl_overload(Ty) # "array"
    THEN CHOOSE w \in {operand(r) : r \in {serialize_impl(e, Ty, v, after, b)}} : TRUE
    ELSE IF i = 0 /\ LegacyAssertFails(b, e.size >= sizeof(Ty))
    THEN [e |-> Aborted(e), i |-> 0, total_bytes |-> 0, ended |-> FALSE, bytes |-> 0]
    ELSE CHOOSE w \in
            {array_turn(r, Ty, i, total_bytes, b) :
                r \in {serialize_impl_nonarray(e, Ty.elem, v[i + 1], b)}} : TRUE

\* The caller after a step r of the fold, and the memory.
written(s, r) ==
    [s |-> [s EXCEPT !.pc = IF r.e.abort THEN "aborted" ELSE "call",
                     !.e = [buffer |-> r.e.buffer, size |-> r.e.size,
                            abort |-> r.e.abort],
                     !.i = r.i,
                     !.total_bytes = r.total_bytes,
                     !.k = IF r.ended /\ ~r.e.abort THEN @ + 1 ELSE @,
                     !.bytes = IF r.ended THEN (@ + r.bytes) % SizeMod ELSE @,
                     !.steps = @ + 1],
     mem |-> r.e.mem]

\* The step of a running to() that writes: the next value, or the next
\* element of an array.
to_write(s, m, nd) ==
    CHOOSE w \in
        {written(s, r) :
            r \in {serialize_step([mem |-> m, buffer |-> s.e.buffer,
                                   size |-> s.e.size, abort |-> FALSE],
                                  s.prog[s.call + 1][s.k + 1], s._args[s.k + 1],
                                  s.afters[s.k + 1], s.i, s.total_bytes,
                                  [legacy |-> s.kind = "ser", ndebug |-> nd])}} : TRUE

\* to() returns the sum of the fold.
to_return(s, m, nd) == [s |-> Returned(s, ToReturn(s, m, s.bytes)), mem |-> m]

\* deserializer::to<T...>() up to the reads: the assert of the overload.
read_enter(s, m, nd) ==
    LET Ts == s.prog[s.call + 1]
    IN  IF ~nd /\ ~(s.d.length >= SumSizeof(Ts))
        THEN [s |-> [s EXCEPT !.pc = "aborted", !.d = [@ EXCEPT !.abort = TRUE],
                              !.steps = @ + 1],
              mem |-> m]
        ELSE [s |-> [s EXCEPT !.pc = "call", !.k = 0, !.i = 0, !.array = <<>>,
                              !.values = <<>>, !.steps = @ + 1],
              mem |-> m]

\* What a deserialize_impl<T>() that is no loop leaves: the value is read.
value_read(r) ==
    [d |-> r.d, i |-> 0, array |-> <<>>, length |-> 0, ended |-> TRUE,
     value |-> r.value]

\* i < N and (i + 1) * type_size <= length
loop_condition(Ty, i, length) ==
    i < extent_v(Ty) /\ (i + 1) * SizeofName(Ty.elem) <= length

\* One turn of the loop of deserialize_impl<T>() for an array, r being what
\* deserialize_impl<type>() returned: array[i] = r, i++; after the last turn
\* std::fill and return array.
element_read(r, Ty, i, array, length) ==
    IF loop_condition(Ty, NextIndex(i), length) \/ NextIndex(i) = i
    THEN [d |-> r.d, i |-> NextIndex(i), array |-> Append(array, r.value),
          length |-> length, ended |-> FALSE, value |-> <<>>]
    ELSE [d |-> r.d, i |-> 0, array |-> <<>>, length |-> 0, ended |-> TRUE,
          value |-> fill(Append(array, r.value), Ty)]

\* The loop of deserialize_impl<T>() at its turn i, length being _length as
\* saved before the loop.
array_read(cursor, m, Ty, i, array, length) ==
    IF ~loop_condition(Ty, i, length)
    THEN [d |-> cursor, i |-> 0, array |-> <<>>, length |-> 0, ended |-> TRUE,
          value |-> fill(array, Ty)]
    ELSE CHOOSE w \in
            {element_read(r, Ty, i, array, length) :
                r \in {deserialize_impl_nonarray(cursor, m, Ty.elem)}} : TRUE

\* One deserialize_impl<T>() of { deserialize_impl<T>()... }, or for an array
\* one turn of its loop.
deserialize_step(cursor, m, Ty, i, array, length) ==
    IF ~is_array_v(Ty)
    THEN CHOOSE w \in
            {value_read(r) : r \in {deserialize_impl_nonarray(cursor, m, Ty.elem)}} : TRUE
    ELSE array_read(cursor, m, Ty, i, array,
                    IF i = 0 THEN cursor.length ELSE length)

\* The caller after a step r of the reads.
was_read(s, r) ==
    [s EXCEPT !.d = r.d,
              !.i = r.i,
              !.array = r.array,
              !.length = r.length,
              !.k = IF r.ended THEN @ + 1 ELSE @,
              !.values = IF r.ended THEN Append(@, r.value) ELSE @,
              !.steps = @ + 1]

\* The step of a running to<T...>() that reads: the next value, or the next
\* element of an array.
read_value(s, m, nd) ==
    CHOOSE w \in
        {[s |-> was_read(s, r), mem |-> m] :
            r \in {deserialize_step(s.d, m, s.prog[s.call + 1][s.k + 1],
                                    s.i, s.array, s.length)}} : TRUE

\* to<T...>() returns the values.
read_return(s, m, nd) == [s |-> Returned(s, s.values), mem |-> m]

\* The next step of a caller that has not ended.
CallerStep(s, m, nd) ==
    CASE s.kind # "dec" /\ s.pc = "idle" -> to_enter(s, m, nd)
      [] s.kind # "dec" /\ s.pc = "call" /\ s.k < Len(s.prog[s.call + 1]) -> to_write(s, m, nd)
      [] s.kind # "dec" /\ s.pc = "call" /\ s.k = Len(s.prog[s.call + 1]) -> to_return(s, m, nd)
      [] s.kind = "dec" /\ s.pc = "idle" -> read_enter(s, m, nd)
      [] s.kind = "dec" /\ s.pc = "call" /\ s.k < Len(s.prog[s.call + 1]) -> read_value(s, m, nd)
      [] s.kind = "dec" /\ s.pc = "call" /\ s.k = Len(s.prog[s.call + 1]) -> read_return(s, m, nd)

HasEnded(s) == s.pc \in {"done", "aborted"}

Callers == {1, 2}

\* An assert that fails ends the program, the other caller with it.
Alive == \A t \in Callers : tasks[t].pc # "aborted"

seqVars == <<ndebug, T, vals, _args, lv, impl, mem0, cap, needed, ret, pc, d, len0,
             R, out, pre, src>>

InitPar ==
    /\ ndebug \in BOOLEAN
    /\ \E p1 \in ParChoices : \E p2 \in ParChoices :
          /\ tasks = <<NewCaller(p1, 0), NewCaller(p2, p1.c)>>
          /\ mem = ParMemory(p1.c, p2.c)
    /\ mem0 = mem
    /\ T = <<>>
    /\ vals = <<>>
    /\ _args = <<>>
    /\ lv = <<>>
    /\ impl = "eser"
    /\ cap = 0
    /\ needed = Unsupported
    /\ ret = 0
    /\ pc = "callers"
    /\ d = NoCursor
    /\ len0 = 0
    /\ R = <<>>
    /\ out = <<>>
    /\ pre = NoCursor
    /\ src = "buffer"

\* Caller t, of one of the kinds, can take a step.
CanStep(t, kinds) ==
    /\ pc = "callers"
    /\ Alive
    /\ tasks[t].kind \in kinds
    /\ ~HasEnded(tasks[t])
    /\ tasks[t].steps < MaxSteps

\* The step r of caller t takes effect.
Becomes(t, r) ==
    /\ tasks' = [tasks EXCEPT ![t] = r.s]
    /\ mem' = r.mem
    /\ UNCHANGED seqVars

Encoders == {"eser", "ser"}
Decoders == {"dec"}

AtEntry(s) == s.pc = "idle"
AtValue(s) == s.pc = "call" /\ s.k < Len(s.prog[s.call + 1])
AtReturn(s) == s.pc = "call" /\ s.k = Len(s.prog[s.call + 1])

EnterTo(t) ==
    /\ CanStep(t, Encoders)
    /\ AtEntry(tasks[t])
    /\ \E r \in {to_enter(tasks[t], mem, ndebug)} : Becomes(t, r)

Write(t) ==
    /\ CanStep(t, Encoders)
    /\ AtValue(tasks[t])
    /\ \E r \in {to_write(tasks[t], mem, ndebug)} : Becomes(t, r)

ReturnTo(t) ==
    /\ CanStep(t, Encoders)
    /\ AtReturn(tasks[t])
    /\ \E r \in {to_return(tasks[t], mem, ndebug)} : Becomes(t, r)

EnterRead(t) ==
    /\ CanStep(t, Decoders)
    /\ AtEntry(tasks[t])
    /\ \E r \in {read_enter(tasks[t], mem, ndebug)} : Becomes(t, r)

ReadValue(t) ==
    /\ CanStep(t, Decoders)
    /\ AtValue(tasks[t])
    /\ \E r \in {read_value(tasks[t], mem, ndebug)} : Becomes(t, r)

ReturnRead(t) ==
    /\ CanStep(t, Decoders)
    /\ AtReturn(tasks[t])
    /\ \E r \in {read_return(tasks[t], mem, ndebug)} : Becomes(t, r)

\* Between two to() calls the caller assigns to a variable it passed to
\* serialize.
Assign(t) ==
    /\ pc = "callers"
    /\ Alive
    /\ tasks[t].pc = "idle"
    /\ tasks[t].call > 0
    /\ \E i \in 1..Len(tasks[t].lv) :
          \E v \in ValuesOf(tasks[t].prog[1][i]) :
             /\ tasks[t].lv[i]
             /\ v # tasks[t]._args[i]
             /\ tasks' = [tasks EXCEPT ![t]._args[i] = v]
    /\ UNCHANGED mem
    /\ UNCHANGED seqVars

Advance(t) ==
    \/ EnterTo(t) \/ Write(t) \/ ReturnTo(t)
    \/ EnterRead(t) \/ ReadValue(t) \/ ReturnRead(t)

NextPar == \E t \in Callers : Advance(t) \/ Assign(t)

SpecPar == InitPar /\ [][NextPar]_vars

\* A thread that can take a step takes it.
SpecParFair == SpecPar /\ WF_vars(Advance(1)) /\ WF_vars(Advance(2))

\* The program has ended: in an assert, or with every caller done.
Ended == ~Alive \/ \A t \in Callers : tasks[t].pc = "done"

\* The caller as it was when the program started.
Fresh(s) ==
    [s EXCEPT !.pc = "idle", !.call = 0, !.k = 0, !.i = 0,
              !.e = NoEncodeCursor, !.bytes = 0, !.total_bytes = 0,
              !.d = IF s.kind = "dec" THEN deserializer(s.buffer, s.size) ELSE NoCursor,
              !.length = 0, !.array = <<>>, !.values = <<>>, !.rets = <<>>,
              !.steps = 0]

\* A caller runs alone until it has ended: r is the caller and the memory.
RECURSIVE RunAlone(_, _)
RunAlone(r, nd) ==
    IF HasEnded(r.s) THEN r ELSE RunAlone(CallerStep(r.s, r.mem, nd), nd)

\* The second caller runs after the first has ended, in the memory it left.
RunAfter(a, second, nd) ==
    [first |-> a.s, second |-> RunAlone([s |-> second, mem |-> a.mem], nd).s,
     mem |-> RunAlone([s |-> second, mem |-> a.mem], nd).mem]

\* The two callers run one after the other from the memory m.
Sequentially(first, second, m, nd) ==
    RunAfter(RunAlone([s |-> first, mem |-> m], nd), second, nd)

(***************************************************************************)
(* Claims about callers that run side by side, under SpecPar.              *)
(***************************************************************************)
AllDone == \A t \in Callers : tasks[t].pc = "done"

\* No caller holds a reference to a variable.
NoLvalues == \A t \in Callers : \A i \in 1..Len(tasks[t].lv) : ~tasks[t].lv[i]

\* No caller's char array lacks its terminator: strlen reads no byte behind
\* an array.
Terminated ==
    \A t \in Callers : \A i \in 1..Len(tasks[t]._args) :
        ~Unterminated(tasks[t].prog[1][i], tasks[t]._args[i])

\* What the run left is what the callers leave when the first runs to its
\* end before the second starts.
SameAs(first, second) ==
    LET q == Sequentially(Fresh(tasks[first]), Fresh(tasks[second]), mem0, ndebug)
    IN  /\ tasks[first] = q.first
        /\ tasks[second] = q.second
        /\ mem = q.mem

\* C22: two cursors over buffers that do not overlap: whatever the order of
\* their steps, each caller ends with the results, the pointer and the
\* remaining length, and the memory with the contents, of a run in which one
\* caller finishes before the other starts.
C22_CursorsIndependent ==
    (/\ AllDone /\ NoLvalues /\ Terminated
     /\ \A t \in Callers : tasks[t].size > 0)
    => SameAs(1, 2) \/ SameAs(2, 1)

\* An encoder that writes inside its buffer only: the eser version, or the
\* ser version with the capacity its values need.
StaysInside(s) ==
    s.kind = "ser" => s.size >= SumSizeof(s.prog[1])

\* The same for callers that write inside their buffers.
IndependentInsideBuffers ==
    (AllDone /\ NoLvalues /\ Terminated /\ \A t \in Callers : StaysInside(tasks[t]))
    => SameAs(1, 2) /\ SameAs(2, 1)

\* The other caller.
Other(t) == 3 - t

\* Calls t and its neighbour are such that nothing but t writes t's buffer:
\* the neighbour only reads.
Undisturbed(t) == tasks[Other(t)].kind = "dec"

\* C21: two to(buffer, size) calls on one serializer return the same count
\* and leave the same bytes in the buffer; two fresh decode cursors over the
\* same bytes, given the same to<T...>() calls, return the same values.
C21_Idempotent ==
    /\ \A t \in Callers :
          (/\ tasks[t].kind \in Encoders /\ Undisturbed(t)
           /\ Len(tasks[t].rets) = 2)
          => tasks[t].rets[1] = tasks[t].rets[2]
    /\ (/\ AllDone /\ \A t \in Callers : tasks[t].kind = "dec"
        /\ tasks[1].prog = tasks[2].prog /\ tasks[1].size = tasks[2].size)
       => tasks[1].rets = tasks[2].rets

\* The same for a serializer that was given temporaries only.
IdempotentForCopies ==
    /\ \A t \in Callers :
          (/\ tasks[t].kind \in Encoders /\ Undisturbed(t)
           /\ Len(tasks[t].rets) = 2
           /\ \A i \in 1..Len(tasks[t].lv) : ~tasks[t].lv[i])
          => tasks[t].rets[1] = tasks[t].rets[2]
    /\ (/\ AllDone /\ \A t \in Callers : tasks[t].kind = "dec"
        /\ tasks[1].prog = tasks[2].prog /\ tasks[1].size = tasks[2].size)
       => tasks[1].rets = tasks[2].rets

\* A to() call of caller t is running or has just returned: e is its cursor.
InPass(s) == s.kind \in Encoders /\ (s.pc = "call" \/ (s.pc = "done" /\ s.e # NoEncodeCursor))

\* C26: at every point of an encode pass started with capacity c, the bytes
\* written so far and the remaining capacity add up to c, and the remaining
\* capacity lies in 0..c: it never wraps below zero.
C26_EncodeAccounting ==
    \A t \in Callers :
       (InPass(tasks[t]) /\ Terminated)
       => /\ (tasks[t].e.buffer - tasks[t].buffer) + tasks[t].e.size = tasks[t].size
          /\ 0 <= tasks[t].e.size /\ tasks[t].e.size <= tasks[t].size

\* The same for the eser version, whose to() checks the capacity first.
EserEncodeAccounting ==
    \A t \in Callers :
       (InPass(tasks[t]) /\ Terminated /\ tasks[t].kind = "eser")
       => /\ (tasks[t].e.buffer - tasks[t].buffer) + tasks[t].e.size = tasks[t].size
          /\ 0 <= tasks[t].e.size /\ tasks[t].e.size <= tasks[t].size
          /\ tasks[t].e.buffer - tasks[t].buffer = tasks[t].bytes + tasks[t].total_bytes

\* The steps of one call for the types Ts: the entry, one step for each value
\* or array element, and the return.
RECURSIVE StepsOf(_)
StepsOf(Ts) ==
    IF Ts = <<>> THEN 2
    ELSE (IF is_array_v(Head(Ts)) THEN extent_v(Head(Ts)) ELSE 1) + StepsOf(Tail(Ts))

\* The steps of all the calls of a caller.
RECURSIVE StepBound(_)
StepBound(calls) ==
    IF calls = <<>> THEN 0 ELSE StepsOf(Head(calls)) + StepBound(Tail(calls))

\* C27: every to(buffer, size) and every to<T...>() finishes after a number of
\* steps bounded by the number of values and array elements of its types, for
\* every buffer content and every capacity or length, 0 included: no call
\* loops or blocks, so the program ends.
C27_Termination ==
    /\ [](\A t \in Callers : tasks[t].steps <= StepBound(tasks[t].prog))
    /\ <>Ended

\* Both callers are done, one of them with capacity or length 0 and one of
\* them after an array loop that took every turn.
C27_Witness ==
    /\ AllDone
    /\ \E t \in Callers : tasks[t].size = 0 /\ tasks[t].steps > 0
    /\ \E t \in Callers :
          /\ \E c \in 1..Len(tasks[t].prog) :
                \E k \in 1..Len(tasks[t].prog[c]) : is_array_v(tasks[t].prog[c][k])
          /\ tasks[t].steps = StepBound(tasks[t].prog)

\* The bytes a read of the type Ty takes from a region of length bytes: the
\* whole value, for an array its whole elements, or nothing.
Taken(Ty, length) ==
    IF is_array_v(Ty)
    THEN SizeofName(Ty.elem)
         * (IF length \div SizeofName(Ty.elem) < extent_v(Ty)
            THEN length \div SizeofName(Ty.elem) ELSE extent_v(Ty))
    ELSE IF sizeof(Ty) <= length THEN sizeof(Ty) ELSE 0

\* The first to<T>() of the caller fell short of data: a scalar read that
\* returned the default, or an array read that padded its tail.
FellShort(s) ==
    /\ s.kind = "dec"
    /\ Len(s.prog) = 2
    /\ sizeof(s.prog[1][1]) > s.size
    /\ IF is_array_v(s.prog[1][1])
       THEN \A k \in 1..extent_v(s.prog[1][1]) :
               k * SizeofName(s.prog[1][1].elem) > s.size
               => s.rets[1][1][k] = ZeroName(s.prog[1][1].elem)
       ELSE s.rets[1] = <<Zero(s.prog[1][1])>>

\* C28: a read that fails for insufficient data does not exhaust or poison
\* the cursor: after a scalar read that returned the zero default, or an
\* array read that zero-padded its tail, a later read of a type whose size is
\* at most the remaining length returns the bytes that start where the failed
\* read, or the first unread array element, would have started.
C28_FailedReadKeepsCursor ==
    [][\A t \in Callers :
          (/\ tasks[t].kind = "dec"
           /\ tasks[t].call = 1
           /\ AtValue(tasks[t])
           /\ tasks'[t] # tasks[t]
           /\ sizeof(tasks[t].prog[1][1]) > tasks[t].size
           /\ sizeof(tasks[t].prog[2][1])
                 <= tasks[t].size - Taken(tasks[t].prog[1][1], tasks[t].size))
          => /\ FellShort(tasks[t])
             /\ tasks'[t].values =
                   <<FromRep(tasks[t].prog[2][1].elem,
                             Load(mem,
                                  tasks[t].buffer
                                     + Taken(tasks[t].prog[1][1], tasks[t].size),
                                  sizeof(tasks[t].prog[2][1])))>>]_vars

\* With 2 bytes left to<int32>() gave 0 and to<uint16>() the 2 bytes; with 3
\* bytes left to<uint16[2]>() gave the first element and a zero, and
\* to<int8>() the third byte.
C28_Witness ==
    /\ AllDone
    /\ \E t \in Callers :
          /\ tasks[t].prog = ParReads(5) /\ tasks[t].size = 2
          /\ tasks[t].rets = <<<<0>>, <<513>>>>
    /\ \E t \in Callers :
          /\ tasks[t].prog = ParReads(6) /\ tasks[t].size = 3
          /\ tasks[t].rets = <<<< <<513, 0>> >>, <<3>>>>

\* The two callers decode, with the same calls, two regions of the same
\* length: the regions hold the same bytes, and what follows them in the
\* memory differs.
SameRegions ==
    /\ \A t \in Callers : tasks[t].kind = "dec"
    /\ tasks[1].prog = tasks[2].prog
    /\ tasks[1].size = tasks[2].size
    /\ Load(mem, tasks[1].buffer, tasks[1].size) = Load(mem, tasks[2].buffer, tasks[2].size)
    /\ \A o \in 1..tasks[1].size :
          mem[tasks[1].buffer + tasks[1].size + o] # mem[tasks[2].buffer + tasks[2].size + o]

\* C29: the results of decoding depend only on the bytes inside the cursor's
\* region: over two buffers that agree on their first length bytes and differ
\* behind them, the same to<T...>() calls return the same values and leave the
\* same remaining length.
C29_OnlyTheRegion ==
    (SameRegions /\ AllDone)
    => /\ tasks[1].rets = tasks[2].rets
       /\ tasks[1].d.length = tasks[2].d.length
       /\ tasks[1].d.data - tasks[1].buffer = tasks[2].d.data - tasks[2].buffer

\* Both runs are over, and a read fell short within a region that held bytes.
C29_Witness ==
    /\ SameRegions
    /\ AllDone
    /\ tasks[1].size > 0
    /\ SumSizeof(tasks[1].prog[1]) > tasks[1].size
    /\ tasks[2].rets # <<>>
    /\ tasks[1].d.length < tasks[1].size

\* The two callers hold the same serializer, the first of the eser version
\* and the second of the ser version, and give it a capacity that suffices.
Twins ==
    /\ tasks[1].kind = "eser"
    /\ tasks[2].kind = "ser"
    /\ tasks[1].prog = tasks[2].prog
    /\ tasks[1]._args = tasks[2]._args
    /\ tasks[1].afters = tasks[2].afters
    /\ tasks[1].size = tasks[2].size
    /\ tasks[1].size >= serialized_size_of_pack(tasks[1].prog[1])
    /\ NoLvalues

\* C30: the two serializer implementations are equivalent when the capacity
\* suffices: for every value sequence and every capacity >= needed, to() of
\* the eser version and to() of the ser version write the same bytes at the
\* same offsets and return the same count.
C30_EncodersEquivalent ==
    (Twins /\ Ended)
    => /\ AllDone
       /\ tasks[1].rets = tasks[2].rets

\* The same for values whose char arrays hold their terminating zero.
EquivalentWhenTerminated ==
    (Twins /\ Terminated)
    => /\ Alive
       /\ Ended => tasks[1].rets = tasks[2].rets
       /\ \A t \in Callers :
             InPass(tasks[t]) => tasks[t].e.buffer <= tasks[t].buffer + tasks[t].size


====
